---------------------------- MODULE Spec2Model ----------------------------
(***************************************************************************)
(* Model of the Qplex-simulation core:                                     *)
(*   - catching_rate        (simulations/atomic_flux_fraction.py and       *)
(*                           simulations/zeeman_slower_diffraction_det.py) *)
(*   - sample_positions     (configurations/oven_diffraction.py)           *)
(*   - build_cdf_axial / build_cdf_ortho (configurations/oven_diffraction) *)
(*   - sample_velocities: the np.interp draw through a built table         *)
(*   - u0_diffraction = np.hstack([r0_diffraction, v0_diffraction])        *)
(*   - run_plots: the colour chosen for each trajectory                    *)
(*                          (plottings/zeeman_slower_plotting.py)          *)
(*   - detunings_sweeping   (simulations/atomic_flux_fraction.py)          *)
(*                                                                         *)
(* Numbers.  Long-axis coordinates z are integers in thousandths of the    *)
(* length unit, so the code's literals 0.35, 0.05, 0.01 and -0.15 are 350, *)
(* 50, 10 and -150.  Quotients (np.mean, pdf / integral, cdf / cdf[-1])    *)
(* are exact fractions <<num, den>> in lowest terms, and 0/0 is nan as in  *)
(* numpy; floating-point rounding is not modelled.                         *)
(***************************************************************************)
EXTENDS Integers, Sequences, FiniteSets, TLC

VARIABLES
    \* ---- catching_rate ----
    traj,          \* traj[:, 2, :]: one row of z values per atom
    n_steps,       \* traj.shape[2], the number of recorded timesteps
    cut_indices,   \* local of catching_rate
    escaped,       \* local of catching_rate (boolean per atom)
    lost,          \* local of catching_rate (boolean per atom)
    trapped,       \* local of catching_rate (boolean per atom)
    rate,          \* the returned value
    pc_catch,      \* "call" before the first call, "done" after a return
    calls,         \* how many calls of catching_rate(traj) have returned
    returned,      \* what each of them computed: <<escaped, lost, trapped, rate>>
    \* ---- sample_positions ----
    N_ATOMS,       \* module constant N_ATOMS of oven_diffraction.py
    D,             \* module constant D (aperture diameter)
    SIGMA_X,       \* module constant SIGMA_X
    SIGMA_Y,       \* module constant SIGMA_Y
    positions,     \* local array of sample_positions, rows <<x, y, z>>
    count,         \* local of sample_positions
    n_to_sample,   \* local of the loop body
    batch_size,    \* local of the loop body
    pc_pos,        \* "call", "loop", "done"
    \* ---- build_cdf_axial / build_cdf_ortho ----
    dist,          \* which builder is called: "axial" or "ortho"
    V_MIN,         \* V_MIN_AXIAL or V_MIN_ORTHO, the builder's lower bound
    V_MAX,         \* V_MAX_AXIAL or V_MAX_ORTHO, the builder's upper bound
    n_grid,        \* argument n_grid
    pdf_func,      \* argument pdf_func, as its values on the grid points
    v,             \* the returned grid
    pdf,           \* local pdf after "pdf /= np.trapezoid(pdf, v)"
    cdf_raw,       \* local cdf after np.insert, before "cdf /= cdf[-1]"
    cdf,           \* the returned table
    u,             \* one element of np.random.rand(N_ATOMS)
    v_sample,      \* the element of np.interp(...) for that draw
    pc_cdf,        \* "call", "done", "sampled", "error"
    \* ---- module level of oven_diffraction.py ----
    r0_diffraction,  \* the array sample_positions() returned
    v0_diffraction,  \* the array sample_velocities() returned
    u0_diffraction,  \* np.hstack([r0_diffraction, v0_diffraction])
    pc_asm,          \* "call", "done", "error"
    \* ---- run_plots (plottings/zeeman_slower_plotting.py) ----
    z_trajs_npz,     \* data['z'], the array the trajectory loop reads
    colors,          \* the colour chosen for each trajectory drawn so far
    pc_plot,         \* "loop", "done"
    \* ---- detunings_sweeping (simulations/atomic_flux_fraction.py) ----
    DETUNINGS,       \* module constant DETUNINGS
    couplings,       \* detunings of configuration_MM's laser_ZS_1 / main couplings
    sweep_i,         \* loop index i
    rates,           \* local list rates
    runs,            \* what each run_simu() was given and returned
    pc_sweep         \* "clear", "add", "run", "rate", "done"

catch_vars == <<traj, n_steps, cut_indices, escaped, lost, trapped, rate, pc_catch,
                calls, returned>>
pos_vars   == <<N_ATOMS, D, SIGMA_X, SIGMA_Y, positions, count, n_to_sample,
                batch_size, pc_pos>>
cdf_vars   == <<dist, V_MIN, V_MAX, n_grid, pdf_func, v, pdf, cdf_raw, cdf, u,
                v_sample, pc_cdf>>
asm_vars   == <<r0_diffraction, v0_diffraction, u0_diffraction, pc_asm>>
plot_vars  == <<z_trajs_npz, colors, pc_plot>>
sweep_vars == <<DETUNINGS, couplings, sweep_i, rates, runs, pc_sweep>>
vars       == <<catch_vars, pos_vars, cdf_vars, asm_vars, plot_vars, sweep_vars>>

-----------------------------------------------------------------------------
(* Arithmetic helpers *)

Min(a, b) == IF a <= b THEN a ELSE b

RECURSIVE Gcd(_, _)
Gcd(a, b) == IF b = 0 THEN a ELSE Gcd(b, a % b)

\* Numbers that come out of a division are pairs <<num, den>> with
\* num, den >= 0 in lowest terms: <<0, 0>> is nan (0/0) and <<1, 0>> is inf
\* (x/0, x > 0), as numpy produces them.
NaN == <<0, 0>>

Inf == <<1, 0>>

Norm(a, b) ==
    IF a = 0 /\ b = 0 THEN NaN
    ELSE LET g == Gcd(a, b) IN <<a \div g, b \div g>>

FromInt(k) == <<k, 1>>

IsNaN(p) == p = NaN

RDiv(p, q) ==
    IF IsNaN(p) \/ IsNaN(q) THEN NaN ELSE Norm(p[1] * q[2], p[2] * q[1])

RMul(p, q) ==
    IF IsNaN(p) \/ IsNaN(q) THEN NaN ELSE Norm(p[1] * q[1], p[2] * q[2])

RAdd(p, q) ==
    IF IsNaN(p) \/ IsNaN(q) THEN NaN
    ELSE IF p = Inf \/ q = Inf THEN Inf
    ELSE Norm(p[1] * q[2] + q[1] * p[2], p[2] * q[2])

\* p <= q as floating point compares: False when either side is nan
RLeq(p, q) ==
    /\ ~IsNaN(p) /\ ~IsNaN(q)
    /\ IF q = Inf THEN TRUE ELSE IF p = Inf THEN FALSE
       ELSE p[1] * q[2] <= q[1] * p[2]

\* p - q for p >= q >= 0
RSub(p, q) ==
    IF IsNaN(p) \/ IsNaN(q) THEN NaN
    ELSE Norm(p[1] * q[2] - q[1] * p[2], p[2] * q[2])

\* p < q as floating point compares
RLt(p, q) == RLeq(p, q) /\ p # q

-----------------------------------------------------------------------------
(* catching_rate *)

\* Bound: the trajectory array traj[:, 2, :] holds at most MaxCells values.
MaxCells == 4

\* At most MaxCalls calls of catching_rate on the same array.
MaxCalls == 2

\* The z values trajectories are drawn from (thousandths): every threshold
\* of catching_rate itself with a value on each side of it, and the values
\* of the two scenarios.
ZValues == {-150, -50, -5, 2, 5, 10, 50, 350, 400}

cutoff == 350

\* z_trajs > cutoff
greater_than_cutoff(z_trajs) ==
    [i \in 1..Len(z_trajs) |-> [t \in 1..Len(z_trajs[i]) |-> z_trajs[i][t] > cutoff]]

\* np.any(row)
AnyTrue(row) == \E t \in 1..Len(row) : row[t]

\* np.argmax of a boolean row: the (0-based) index of the first True, and 0
\* when no element is True.
ArgMax(row) ==
    IF AnyTrue(row)
    THEN (CHOOSE t \in 1..Len(row) : row[t] /\ \A s \in 1..(t - 1) : ~row[s]) - 1
    ELSE 0

\* Mutant of CutIndices: the never_crossed fix-up dropped
CutIndicesNoFixup(z_trajs, T) ==
    LET g == greater_than_cutoff(z_trajs)
    IN  [i \in 1..Len(z_trajs) |-> ArgMax(g[i])]

\* cut_indices = np.argmax(...); cut_indices[never_crossed] = z_trajs.shape[1]
CutIndices(z_trajs, T) ==
    LET g == greater_than_cutoff(z_trajs)
    IN  [i \in 1..Len(z_trajs) |-> IF ~AnyTrue(g[i]) THEN T ELSE ArgMax(g[i])]

\* z_trajs[:, -1]
z_final(z_trajs, T) == [i \in 1..Len(z_trajs) |-> z_trajs[i][T]]

RECURSIVE RowMax(_, _)
RowMax(row, k) ==
    IF k = 1 THEN row[1]
    ELSE LET m == RowMax(row, k - 1) IN IF row[k] > m THEN row[k] ELSE m

\* np.max(z_trajs, axis=1)
z_max(z_trajs, T) == [i \in 1..Len(z_trajs) |-> RowMax(z_trajs[i], T)]

\* Mutant of Escaped: the early-crossing test (cut_indices < shape[1]) dropped
EscapedNoCut(z_trajs, T) ==
    LET zf == z_final(z_trajs, T)
    IN  [i \in 1..Len(z_trajs) |-> (zf[i] > 50) \/ (zf[i] < -50)]

\* Mutant of Escaped: any excursion below -0.05 counts, not only the final z
EscapedAnyExcursion(z_trajs, T) ==
    LET zf == z_final(z_trajs, T)
        ci == CutIndices(z_trajs, T)
    IN  [i \in 1..Len(z_trajs) |->
            \/ zf[i] > 50 \/ ci[i] < T
            \/ \E t \in 1..T : z_trajs[i][t] < -50]

\* escaped = (z_final > 0.05) | (z_final < -0.05) | (cut_indices < shape[1])
Escaped(z_trajs, T) ==
    LET zf == z_final(z_trajs, T)
        ci == CutIndices(z_trajs, T)
    IN  [i \in 1..Len(z_trajs) |-> (zf[i] > 50) \/ (zf[i] < -50) \/ (ci[i] < T)]

\* Mutant of Lost: the (~escaped) factor dropped
LostNoPriority(z_trajs, T) ==
    LET zm == z_max(z_trajs, T)
    IN  [i \in 1..Len(z_trajs) |-> zm[i] > 10]

\* lost = (~escaped) & (z_max > 0.01)
Lost(z_trajs, T) ==
    LET e  == Escaped(z_trajs, T)
        zm == z_max(z_trajs, T)
    IN  [i \in 1..Len(z_trajs) |-> (~e[i]) /\ (zm[i] > 10)]

\* Mutant of Trapped: ~escaped instead of ~(escaped | lost)
TrappedIgnoresLost(z_trajs, T) ==
    LET e == Escaped(z_trajs, T)
    IN  [i \in 1..Len(z_trajs) |-> ~e[i]]

\* trapped = ~(escaped | lost)
Trapped(z_trajs, T) ==
    LET e == Escaped(z_trajs, T)
        l == Lost(z_trajs, T)
    IN  [i \in 1..Len(z_trajs) |-> ~(e[i] \/ l[i])]

\* Mutant of Mean: a counter kept between calls leaks into the result
MeanSeeded(b) ==
    RDiv(FromInt(Cardinality({i \in 1..Len(b) : b[i]}) + calls), FromInt(Len(b)))

\* np.mean of a boolean array: the number of True over the length (0/0 = nan)
Mean(b) == RDiv(FromInt(Cardinality({i \in 1..Len(b) : b[i]})), FromInt(Len(b)))

\* The arrays catching_rate can be given: n atoms and T >= 1 timesteps.
Shapes == {s \in (0..MaxCells) \X (1..MaxCells) : s[1] * s[2] <= MaxCells}

\* ---- the copy of catching_rate in zeeman_slower_diffraction_det.py ----

\* cutoff = 0.35; greater_than_cutoff = z_trajs > cutoff;
\* cut_indices = np.argmax(greater_than_cutoff, axis=1);
\* never_crossed = ~np.any(greater_than_cutoff, axis=1);
\* cut_indices[never_crossed] = z_trajs.shape[1]
DetCutIndices(z_trajs, T) ==
    LET above == [i \in 1..Len(z_trajs) |-> [t \in 1..T |-> z_trajs[i][t] > 350]]
    IN  [i \in 1..Len(z_trajs) |->
            IF ~AnyTrue(above[i]) THEN T ELSE ArgMax(above[i])]

\* escaped = (z_final > 0.05) | (z_final < -0.05) | (cut_indices < shape[1])
DetEscaped(z_trajs, T) ==
    LET ci == DetCutIndices(z_trajs, T)
    IN  [i \in 1..Len(z_trajs) |->
            (z_trajs[i][T] > 50) \/ (z_trajs[i][T] < -50) \/ (ci[i] < T)]

\* Mutant of DetLost: the copies drifted apart, this one testing z_max > 0.05
DetLostOtherThreshold(z_trajs, T) ==
    LET e == DetEscaped(z_trajs, T)
    IN  [i \in 1..Len(z_trajs) |-> (~e[i]) /\ (RowMax(z_trajs[i], T) > 50)]

\* z_max = np.max(z_trajs, axis=1); lost = (~escaped) & (z_max > 0.01)
DetLost(z_trajs, T) ==
    LET e == DetEscaped(z_trajs, T)
    IN  [i \in 1..Len(z_trajs) |-> (~e[i]) /\ (RowMax(z_trajs[i], T) > 10)]

\* trapped = ~(escaped | lost)
DetTrapped(z_trajs, T) ==
    LET e == DetEscaped(z_trajs, T)
        l == DetLost(z_trajs, T)
    IN  [i \in 1..Len(z_trajs) |-> ~(e[i] \/ l[i])]

\* rate = np.mean(trapped); return rate
DetRate(z_trajs, T) == Mean(DetTrapped(z_trajs, T))

\* Mutant of TrajAfter: the never_crossed fix-up written through the view
\* z_trajs instead of into cut_indices
TrajFixupOnView(z_trajs, T) ==
    LET g == greater_than_cutoff(z_trajs)
    IN  [i \in 1..Len(z_trajs) |->
            IF ~AnyTrue(g[i]) THEN [t \in 1..T |-> T] ELSE z_trajs[i]]

\* The caller's array after the call.  z_trajs = traj[:, 2, :] is a view of
\* it, but every assignment of the body has a fresh array as its target
\* (greater_than_cutoff, cut_indices, never_crossed, mask, ...), so no cell
\* of the view is written.
TrajAfter(z_trajs, T) == z_trajs

CatchIdle ==
    /\ traj = <<>> /\ n_steps = 1
    /\ cut_indices = <<>> /\ escaped = <<>> /\ lost = <<>> /\ trapped = <<>>
    /\ rate = <<>> /\ pc_catch = "idle"
    /\ calls = 0 /\ returned = <<>>

CatchInit ==
    /\ \E s \in Shapes :
          /\ n_steps = s[2]
          /\ traj \in [1..s[1] -> [1..s[2] -> ZValues]]
    /\ cut_indices = <<>> /\ escaped = <<>> /\ lost = <<>> /\ trapped = <<>>
    /\ rate = <<>> /\ pc_catch = "call"
    /\ calls = 0 /\ returned = <<>>

\* One call of catching_rate(traj); the caller may call again on the array
\* it still holds.
catching_rate ==
    /\ pc_catch \in {"call", "done"}
    /\ calls < MaxCalls
    /\ cut_indices' = CutIndices(traj, n_steps)
    /\ escaped' = Escaped(traj, n_steps)
    /\ lost' = Lost(traj, n_steps)
    /\ trapped' = Trapped(traj, n_steps)
    /\ rate' = Mean(Trapped(traj, n_steps))
    /\ traj' = TrajAfter(traj, n_steps)
    /\ pc_catch' = "done"
    /\ calls' = calls + 1
    /\ returned' = Append(returned, <<escaped', lost', trapped', rate'>>)
    /\ UNCHANGED <<n_steps, pos_vars, cdf_vars, asm_vars>>
    /\ UNCHANGED <<plot_vars, sweep_vars>>

-----------------------------------------------------------------------------
(* sample_positions *)

\* Bounds: N_ATOMS <= MaxAtoms, R <= MaxR, SIGMA_X, SIGMA_Y <= MaxSigma, and a
\* normal deviate is one of the non-zero integers of -MaxDev..MaxDev.
MaxAtoms == 2
MaxR == 2
MaxSigma == 2
MaxDev == 2

\* R = D / 2
R == D \div 2

\* np.random.normal(0, sigma, n) draws each element as sigma * z for a
\* standard normal deviate z: exactly 0 when sigma = 0, and otherwise a value
\* that is 0 with probability 0.
Normal(sigma) ==
    IF sigma = 0 THEN {0}
    ELSE {sigma * z : z \in {k \in (-MaxDev)..MaxDev : k # 0}}

\* The candidates (x[j], y[j]) one batch element can be
Candidates == Normal(SIGMA_X) \X Normal(SIGMA_Y)

\* Mutant of InAperture: the diameter used for the radius
InApertureDiameter(x, y, r) == x * x + y * y <= (2 * r) * (2 * r)

\* mask = x**2 + y**2 <= R**2
InAperture(x, y, r) == x * x + y * y <= r * r

Accepted == {c \in Candidates : InAperture(c[1], c[2], R)}

Rejected == Candidates \ Accepted

\* batch_size = int(n_to_sample * 1.5) + 10
\* Mutant of BatchSize: the product rounded up instead of truncated
BatchSizeCeil(n) == ((n * 3 + 1) \div 2) + 10

BatchSize(n) == ((n * 3) \div 2) + 10

\* Mutants of LoopCond: the loop left one position early, or never left
LoopCondOffByOne(c, n) == c + 1 < n

LoopCondInclusive(c, n) == c <= n

\* while count < N_ATOMS
LoopCond(c, n) == c < n

\* n_accept = min(len(accepted_x), n_to_sample)
NAccept(len, n) == Min(len, n)

\* Mutant of StoredRow: the whole row is replaced, third coordinate included
StoredRowZeroZ(row, c) == <<c[1], c[2], 0>>

\* positions[count:count+n_accept, 0] = accepted_x[:n_accept] and
\* positions[count:count+n_accept, 1] = accepted_y[:n_accept], for one row:
\* columns 0 and 1 are assigned, column 2 is not.
StoredRow(row, c) == <<c[1], c[2], row[3]>>

PosInit ==
    /\ N_ATOMS \in 0..MaxAtoms
    /\ D \in {2 * r : r \in 0..MaxR}
    /\ SIGMA_X \in 0..MaxSigma
    /\ SIGMA_Y \in 0..MaxSigma
    /\ positions = <<>> /\ count = 0 /\ n_to_sample = 0 /\ batch_size = 0
    /\ pc_pos = "call"

PosIdle ==
    /\ N_ATOMS = 0 /\ D = 0 /\ SIGMA_X = 0 /\ SIGMA_Y = 0
    /\ positions = <<>> /\ count = 0 /\ n_to_sample = 0 /\ batch_size = 0
    /\ pc_pos = "idle"

\* The call up to the loop: positions = zeros((N_ATOMS, 3)),
\* positions[:, 2] = -0.15, count = 0.
sample_positions_enter ==
    /\ pc_pos = "call"
    /\ positions' = [i \in 1..N_ATOMS |-> <<0, 0, -150>>]
    /\ count' = 0
    /\ pc_pos' = "loop"
    /\ UNCHANGED <<N_ATOMS, D, SIGMA_X, SIGMA_Y, n_to_sample, batch_size,
                   catch_vars, cdf_vars, asm_vars>>
    /\ UNCHANGED <<plot_vars, sweep_vars>>

\* One round of the while loop.  The batch is batch_size candidates, of
\* which len_accepted pass the mask (any number the candidate set allows);
\* only accepted[:n_accept] is read, so only those are drawn here.
sample_positions_batch ==
    /\ pc_pos = "loop"
    /\ LoopCond(count, N_ATOMS)
    /\ LET n  == N_ATOMS - count
           bs == BatchSize(n)
       IN  /\ n_to_sample' = n
           /\ batch_size' = bs
           /\ \E len_accepted \in 0..bs :
                 /\ len_accepted > 0 => Accepted # {}
                 /\ len_accepted < bs => Rejected # {}
                 /\ LET n_accept == NAccept(len_accepted, n)
                    IN  \E accepted \in [1..n_accept -> Accepted] :
                          /\ positions' =
                                [i \in 1..Len(positions) |->
                                   IF count < i /\ i <= count + n_accept
                                   THEN StoredRow(positions[i], accepted[i - count])
                                   ELSE positions[i]]
                          /\ count' = count + n_accept
    /\ UNCHANGED <<N_ATOMS, D, SIGMA_X, SIGMA_Y, pc_pos, catch_vars, cdf_vars, asm_vars>>
    /\ UNCHANGED <<plot_vars, sweep_vars>>

\* The loop condition fails: return positions.
sample_positions_return ==
    /\ pc_pos = "loop"
    /\ ~LoopCond(count, N_ATOMS)
    /\ pc_pos' = "done"
    /\ UNCHANGED <<N_ATOMS, D, SIGMA_X, SIGMA_Y, positions, count, n_to_sample,
                   batch_size, catch_vars, cdf_vars, asm_vars>>
    /\ UNCHANGED <<plot_vars, sweep_vars>>

\* A round that stores at least one position
AcceptingBatch == sample_positions_batch /\ count' > count

\* ENABLED <<AcceptingBatch>>_vars, written out: the loop is running and
\* some batch has a candidate inside the aperture that is stored.
CanStore ==
    /\ pc_pos = "loop"
    /\ LoopCond(count, N_ATOMS)
    /\ Accepted # {}
    /\ \E len_accepted \in 1..BatchSize(N_ATOMS - count) :
          /\ len_accepted < BatchSize(N_ATOMS - count) => Rejected # {}
          /\ NAccept(len_accepted, N_ATOMS - count) > 0

-----------------------------------------------------------------------------
(* build_cdf_axial / build_cdf_ortho *)

\* Bounds: the grid has at most MaxGrid points, starts at V_MIN <= MaxVMin
\* and has a ratio <= MaxRatio between neighbours; the density takes the
\* values 0..MaxPdf on it, and is not zero everywhere (a density has mass).
MaxGrid == 3
MaxVMin == 2
MaxRatio == 3
MaxPdf == 2

RECURSIVE Pow(_, _)
Pow(b, e) == IF e = 0 THEN 1 ELSE b * Pow(b, e - 1)

\* np.geomspace(a, b, n) for end points with a whole ratio q between
\* neighbouring points: a, a*q, ..., a*q^(n-1) = b.
Geomspace(a, b, n) ==
    LET q == CHOOSE k \in 1..b : a * Pow(k, n - 1) = b
    IN  [i \in 1..n |-> a * Pow(q, i - 1)]

RECURSIVE Trapezoid(_, _, _)
\* np.trapezoid(y, x) over the first k points:
\* sum of (y[i] + y[i+1]) / 2 * (x[i+1] - x[i])
Trapezoid(y, x, k) ==
    IF k <= 1 THEN FromInt(0)
    ELSE RAdd(Trapezoid(y, x, k - 1),
              RMul(RDiv(RAdd(y[k - 1], y[k]), FromInt(2)), FromInt(x[k] - x[k - 1])))

\* np.diff(v)
Diff(x) == [i \in 1..(Len(x) - 1) |-> x[i + 1] - x[i]]

RECURSIVE Cumsum(_, _)
\* np.cumsum(a)[k - 1]: the sum of the first k elements
Cumsum(a, k) == IF k = 0 THEN FromInt(0) ELSE RAdd(Cumsum(a, k - 1), a[k])

\* pdf = pdf_func(v); pdf /= np.trapezoid(pdf, v)
NormPdf(f, grid) ==
    LET n     == Len(grid)
        pdf0  == [i \in 1..n |-> FromInt(f[grid[i]])]
        total == Trapezoid(pdf0, grid, n)
    IN  [i \in 1..n |-> RDiv(pdf0[i], total)]

\* dv = np.diff(v); cdf = np.cumsum(pdf[:-1] * dv); cdf = np.insert(cdf, 0, 0.0)
RawCdf(f, grid) ==
    LET n     == Len(grid)
        p     == NormPdf(f, grid)
        dv    == Diff(grid)
        terms == [i \in 1..(n - 1) |-> RMul(p[i], FromInt(dv[i]))]
    IN  [i \in 1..n |-> IF i = 1 THEN FromInt(0) ELSE Cumsum(terms, i - 1)]

\* The body shared by build_cdf_axial and build_cdf_ortho, from the grid on:
\*   pdf = pdf_func(v); pdf /= np.trapezoid(pdf, v); dv = np.diff(v)
\*   cdf = np.cumsum(pdf[:-1] * dv); cdf = np.insert(cdf, 0, 0.0)
\*   cdf /= cdf[-1]
BuildCdf(f, grid) ==
    LET raw == RawCdf(f, grid)
    IN  [i \in 1..Len(grid) |-> RDiv(raw[i], raw[Len(grid)])]

CdfInit ==
    /\ dist \in {"axial", "ortho"}
    /\ n_grid \in 2..MaxGrid
    /\ V_MIN \in 1..MaxVMin
    /\ \E q \in 2..MaxRatio :
          /\ V_MAX = V_MIN * Pow(q, n_grid - 1)
          /\ pdf_func \in [{V_MIN * Pow(q, i) : i \in 0..(n_grid - 1)} -> 0..MaxPdf]
    /\ \E x \in DOMAIN pdf_func : pdf_func[x] > 0
    /\ v = <<>> /\ pdf = <<>> /\ cdf_raw = <<>> /\ cdf = <<>>
    /\ u = <<>> /\ v_sample = <<>>
    /\ pc_cdf = "call"

\* The module with V_MIN_ORTHO (or V_MIN_AXIAL) edited to a value <= 0, the
\* case the comment "you can not input V_MIN = 0" speaks of.
CdfInitNonPositive ==
    /\ dist \in {"axial", "ortho"}
    /\ n_grid \in 3..MaxGrid
    /\ V_MIN \in (0 - MaxVMin)..0
    /\ V_MAX \in 1..MaxVMin
    /\ pdf_func \in [{V_MIN, V_MAX} -> 1..MaxPdf]
    /\ v = <<>> /\ pdf = <<>> /\ cdf_raw = <<>> /\ cdf = <<>>
    /\ u = <<>> /\ v_sample = <<>>
    /\ pc_cdf = "call"

CdfIdle ==
    /\ dist = "none" /\ V_MIN = 1 /\ V_MAX = 1 /\ n_grid = 0 /\ pdf_func = <<>>
    /\ v = <<>> /\ pdf = <<>> /\ cdf_raw = <<>> /\ cdf = <<>>
    /\ u = <<>> /\ v_sample = <<>>
    /\ pc_cdf = "idle"

\* np.geomspace raises ValueError("Geometric sequence cannot include zero")
GeomspaceRaises(a, b) == a = 0 \/ b = 0

\* np.geomspace(a, b, n) for a < 0 < b and n >= 3: the logarithm of the
\* negative end is nan, so every interior point is nan; the two ends are
\* written back afterwards.
GeomspaceMixedSigns(a, b, n) ==
    [i \in 1..n |-> IF i = 1 THEN <<a, 1>> ELSE IF i = n THEN <<b, 1>> ELSE NaN]

\* A grid with a nan point: pdf_func(nan) is nan, so the trapezoid sum is
\* nan, and pdf / nan and cdf / cdf[-1] are nan in every place.
AllNaN(n) == [i \in 1..n |-> NaN]

\* The cumulative sums of nan terms, behind the 0.0 np.insert puts in front
NaNBehindZero(n) == [i \in 1..n |-> IF i = 1 THEN FromInt(0) ELSE NaN]

\* The body of build_cdf_axial and of build_cdf_ortho.
BuildCdfBody ==
    IF GeomspaceRaises(V_MIN, V_MAX)
    THEN /\ pc_cdf' = "error"
         /\ UNCHANGED <<v, pdf, cdf_raw, cdf>>
    ELSE IF V_MIN < 0
    THEN /\ v' = GeomspaceMixedSigns(V_MIN, V_MAX, n_grid)
         /\ pdf' = AllNaN(n_grid)
         /\ cdf_raw' = NaNBehindZero(n_grid)
         /\ cdf' = AllNaN(n_grid)
         /\ pc_cdf' = "done"
    ELSE /\ v' = Geomspace(V_MIN, V_MAX, n_grid)
         /\ pdf' = NormPdf(pdf_func, Geomspace(V_MIN, V_MAX, n_grid))
         /\ cdf_raw' = RawCdf(pdf_func, Geomspace(V_MIN, V_MAX, n_grid))
         /\ cdf' = BuildCdf(pdf_func, Geomspace(V_MIN, V_MAX, n_grid))
         /\ pc_cdf' = "done"

\* build_cdf_axial(pdf_func, n_grid) on [V_MIN_AXIAL, V_MAX_AXIAL]
build_cdf_axial ==
    /\ pc_cdf = "call" /\ dist = "axial"
    /\ BuildCdfBody
    /\ UNCHANGED <<dist, V_MIN, V_MAX, n_grid, pdf_func, u, v_sample>>
    /\ UNCHANGED <<catch_vars, pos_vars, asm_vars>>
    /\ UNCHANGED <<plot_vars, sweep_vars>>

\* build_cdf_ortho(pdf_func, n_grid) on [V_MIN_ORTHO, V_MAX_ORTHO]
build_cdf_ortho ==
    /\ pc_cdf = "call" /\ dist = "ortho"
    /\ BuildCdfBody
    /\ UNCHANGED <<dist, V_MIN, V_MAX, n_grid, pdf_func, u, v_sample>>
    /\ UNCHANGED <<catch_vars, pos_vars, asm_vars>>
    /\ UNCHANGED <<plot_vars, sweep_vars>>

\* np.random.rand draws from [0, 1): here the multiples of 1/RandDen
RandDen == 4
Rand == {Norm(k, RandDen) : k \in 0..(RandDen - 1)}

\* Mutant of Interp: the slope is applied to x instead of x - xp[j]
InterpNoOffset(x, xp, fp) ==
    LET n == Len(xp)
    IN  IF \E k \in 1..n : IsNaN(xp[k]) THEN NaN
        ELSE IF RLt(xp[n], x) THEN FromInt(fp[n])
        ELSE IF RLt(x, xp[1]) THEN FromInt(fp[1])
        ELSE LET j == CHOOSE k \in 1..n :
                          /\ RLeq(xp[k], x)
                          /\ \A m \in (k + 1)..n : ~RLeq(xp[m], x)
             IN  IF j = n \/ xp[j] = x THEN FromInt(fp[j])
                 ELSE RAdd(RMul(RDiv(FromInt(fp[j + 1] - fp[j]),
                                     RSub(xp[j + 1], xp[j])),
                                x),
                           FromInt(fp[j]))

\* np.interp(x, xp, fp) for one x that is not nan: fp[0] left of the table,
\* fp[-1] right of it, else with j the last index where xp[j] <= x the value
\* slope * (x - xp[j]) + fp[j]; a nan in xp makes the result nan.
Interp(x, xp, fp) ==
    LET n == Len(xp)
    IN  IF \E k \in 1..n : IsNaN(xp[k]) THEN NaN
        ELSE IF RLt(xp[n], x) THEN FromInt(fp[n])
        ELSE IF RLt(x, xp[1]) THEN FromInt(fp[1])
        ELSE LET j == CHOOSE k \in 1..n :
                          /\ RLeq(xp[k], x)
                          /\ \A m \in (k + 1)..n : ~RLeq(xp[m], x)
             IN  IF j = n \/ xp[j] = x THEN FromInt(fp[j])
                 ELSE RAdd(RMul(RDiv(FromInt(fp[j + 1] - fp[j]),
                                     RSub(xp[j + 1], xp[j])),
                                RSub(x, xp[j])),
                           FromInt(fp[j]))

\* sample_velocities after its table is built: one element of
\*   v_r = np.interp(np.random.rand(N_ATOMS), cdf_r, v_r_grid)   (dist "ortho")
\*   v_z = np.interp(np.random.rand(N_ATOMS), cdf_z, v_z_grid)   (dist "axial")
sample_velocities ==
    /\ pc_cdf = "done"
    /\ \E x \in Rand :
          /\ u' = x
          /\ v_sample' = Interp(x, cdf, v)
    /\ pc_cdf' = "sampled"
    /\ UNCHANGED <<dist, V_MIN, V_MAX, n_grid, pdf_func, v, pdf, cdf_raw, cdf>>
    /\ UNCHANGED <<catch_vars, pos_vars, asm_vars>>
    /\ UNCHANGED <<plot_vars, sweep_vars>>

-----------------------------------------------------------------------------
(* u0_diffraction = np.hstack([r0_diffraction, v0_diffraction]) *)

\* Rows sample_positions returns: <<x, y, -0.15>>
PositionRows == {<<x, y, -150>> : x \in {0, 1}, y \in {0, 1}}

\* Rows sample_velocities returns: <<v_x, v_y, v_z>>
VelocityRows == [1..3 -> {2, 3}]

\* Mutant of HstackRaises: only a shorter second array is noticed
HstackRaisesIfShorter(a, b) == Len(a) > Len(b)

\* np.hstack of two 2-D arrays concatenates along axis 1 and raises
\* ValueError unless their numbers of rows are equal.
HstackRaises(a, b) == Len(a) # Len(b)

\* Mutant of Hstack: the two blocks in the other order
HstackSwapped(a, b) == [i \in 1..Len(a) |-> b[i] \o a[i]]

\* np.hstack([a, b]) when it does not raise
Hstack(a, b) == [i \in 1..Len(a) |-> a[i] \o b[i]]

AsmInit ==
    /\ \E n \in 0..MaxAtoms : r0_diffraction \in [1..n -> PositionRows]
    /\ \E m \in 0..MaxAtoms : v0_diffraction \in [1..m -> VelocityRows]
    /\ u0_diffraction = <<>>
    /\ pc_asm = "call"

AsmIdle ==
    /\ r0_diffraction = <<>> /\ v0_diffraction = <<>> /\ u0_diffraction = <<>>
    /\ pc_asm = "idle"

\* The module-level statement that builds u0_diffraction; an exception
\* raised there ends the import, and u0_diffraction is never bound.
hstack ==
    /\ pc_asm = "call"
    /\ IF HstackRaises(r0_diffraction, v0_diffraction)
       THEN /\ pc_asm' = "error"
            /\ UNCHANGED u0_diffraction
       ELSE /\ u0_diffraction' = Hstack(r0_diffraction, v0_diffraction)
            /\ pc_asm' = "done"
    /\ UNCHANGED <<r0_diffraction, v0_diffraction, catch_vars, pos_vars, cdf_vars>>
    /\ UNCHANGED <<plot_vars, sweep_vars>>

-----------------------------------------------------------------------------
(* run_plots: the colour of each trajectory *)

COLOR_TRAP == "C0"
COLOR_LOSS == "C3"
COLOR_ESCAPED == "k"

\* np.searchsorted(z, x) with side='left': the bisection numpy runs, on
\* 0-based indices lo <= hi, whether or not z is sorted.
RECURSIVE Bisect(_, _, _, _)
Bisect(z, x, lo, hi) ==
    IF lo >= hi THEN lo
    ELSE LET mid == lo + ((hi - lo) \div 2)
         IN  IF z[mid + 1] < x THEN Bisect(z, x, mid + 1, hi)
             ELSE Bisect(z, x, lo, mid)

\* cut_idx = np.searchsorted(z, 0.35)
SearchSorted(z, x) == Bisect(z, x, 0, Len(z))

\* mask: all True when cut_idx >= len(z), else True below cut_idx only
PlotMask(z) ==
    LET cut_idx == SearchSorted(z, 350)
    IN  IF cut_idx >= Len(z) THEN [t \in 1..Len(z) |-> TRUE]
        ELSE [t \in 1..Len(z) |-> t - 1 < cut_idx]

\* Mutant of PlotColor: the through-put test made before the escape test
PlotColorLossFirst(z) ==
    IF \E t \in 1..Len(z) : z[t] > 10 THEN COLOR_LOSS
    ELSE IF z[Len(z)] > 50 \/ z[Len(z)] < -50 \/ ~PlotMask(z)[Len(z)]
    THEN COLOR_ESCAPED
    ELSE COLOR_TRAP

\* if z[-1] > 0.05 or z[-1] < -0.05 or not mask[-1]: COLOR_ESCAPED
\* elif np.any(z > 0.01): COLOR_LOSS   else: COLOR_TRAP
PlotColor(z) ==
    IF z[Len(z)] > 50 \/ z[Len(z)] < -50 \/ ~PlotMask(z)[Len(z)]
    THEN COLOR_ESCAPED
    ELSE IF \E t \in 1..Len(z) : z[t] > 10 THEN COLOR_LOSS
    ELSE COLOR_TRAP

PlotInit ==
    /\ \E s \in Shapes : z_trajs_npz \in [1..s[1] -> [1..s[2] -> ZValues]]
    /\ colors = <<>>
    /\ pc_plot = "loop"

PlotIdle ==
    /\ z_trajs_npz = <<>> /\ colors = <<>> /\ pc_plot = "idle"

\* One iteration of "for i in range(z_trajs.shape[0])"
run_plots_trajectory ==
    /\ pc_plot = "loop"
    /\ Len(colors) < Len(z_trajs_npz)
    /\ colors' = Append(colors, PlotColor(z_trajs_npz[Len(colors) + 1]))
    /\ UNCHANGED <<z_trajs_npz, pc_plot>>
    /\ UNCHANGED <<catch_vars, pos_vars, cdf_vars, asm_vars, sweep_vars>>

\* The loop is over; the figure is formatted and saved.
run_plots_finish ==
    /\ pc_plot = "loop"
    /\ Len(colors) = Len(z_trajs_npz)
    /\ pc_plot' = "done"
    /\ UNCHANGED <<z_trajs_npz, colors>>
    /\ UNCHANGED <<catch_vars, pos_vars, cdf_vars, asm_vars, sweep_vars>>

-----------------------------------------------------------------------------
(* detunings_sweeping *)

\* Bound: DETUNINGS holds at most MaxDetunings values.
MaxDetunings == 3

\* DETUNINGS = [(-0.5*i*GAMMA + 0.5) for i in range(2, 40)], cut to n
\* entries and counted in units of GAMMA / 2: entry k (from 1) is -(k + 1).
DetuningsList(n) == [k \in 1..n |-> 0 - (k + 1)]

\* The arrays the integrator returns here: two atoms, one recorded step
SweepTrajs == [1..2 -> [1..1 -> {2, 400}]]

\* Mutant of RmAtomlightCoupling: nothing is removed
RmNothing(c) == c

\* configuration_MM.rm_atomlight_coupling("main", "laser_ZS_1"): the
\* laser_ZS_1 / main couplings are removed (the library is not part of the
\* repository; the call is read as its name says).
RmAtomlightCoupling(c) == <<>>

\* configuration_MM.add_atomlight_coupling("laser_ZS_1", "main", detuning)
AddAtomlightCoupling(c, detuning) == Append(c, detuning)

\* The module is imported with u0_diffraction assembled, configuration_MM
\* holding the one laser_ZS_1 coupling its configuration file gives it
\* (-12.5 GAMMA), and detunings_sweeping() is called.
SweepInit ==
    /\ DETUNINGS \in {DetuningsList(n) : n \in 1..MaxDetunings}
    /\ couplings = <<-25>>
    /\ sweep_i = 0 /\ rates = <<>> /\ runs = <<>>
    /\ pc_sweep = "clear"

SweepIdle ==
    /\ DETUNINGS = <<>> /\ couplings = <<>>
    /\ sweep_i = 0 /\ rates = <<>> /\ runs = <<>>
    /\ pc_sweep = "idle"

\* u0_diffraction as the import of configurations.oven_diffraction left it
AsmImported ==
    /\ r0_diffraction \in [1..1 -> PositionRows]
    /\ v0_diffraction = << <<2, 3, 2>> >>
    /\ u0_diffraction = Hstack(r0_diffraction, v0_diffraction)
    /\ pc_asm = "done"

\* Loop head with a detuning left, then clear_detunings()
clear_detunings ==
    /\ pc_sweep = "clear"
    /\ sweep_i < Len(DETUNINGS)
    /\ couplings' = RmAtomlightCoupling(couplings)
    /\ pc_sweep' = "add"
    /\ UNCHANGED <<DETUNINGS, sweep_i, rates, runs>>
    /\ UNCHANGED <<catch_vars, pos_vars, cdf_vars, asm_vars, plot_vars>>

\* add_detunings(DETUNINGS[i])
add_detunings ==
    /\ pc_sweep = "add"
    /\ couplings' = AddAtomlightCoupling(couplings, DETUNINGS[sweep_i + 1])
    /\ pc_sweep' = "run"
    /\ UNCHANGED <<DETUNINGS, sweep_i, rates, runs>>
    /\ UNCHANGED <<catch_vars, pos_vars, cdf_vars, asm_vars, plot_vars>>

\* traj = run_simu(): RK4(configuration_MM)._integrate(u0_diffraction, T).
\* The integrator is outside the repository: it returns some array.
run_simu ==
    /\ pc_sweep = "run"
    /\ \E tr \in SweepTrajs :
          runs' = Append(runs, [seen |-> couplings, u0 |-> u0_diffraction,
                                traj |-> tr])
    /\ pc_sweep' = "rate"
    /\ UNCHANGED <<DETUNINGS, couplings, sweep_i, rates>>
    /\ UNCHANGED <<catch_vars, pos_vars, cdf_vars, asm_vars, plot_vars>>

\* rate = catching_rate(traj); rates.append(float(rate)); next i
detunings_sweeping_append ==
    /\ pc_sweep = "rate"
    /\ rates' = Append(rates, Mean(Trapped(runs[Len(runs)].traj, 1)))
    /\ sweep_i' = sweep_i + 1
    /\ pc_sweep' = "clear"
    /\ UNCHANGED <<DETUNINGS, couplings, runs>>
    /\ UNCHANGED <<catch_vars, pos_vars, cdf_vars, asm_vars, plot_vars>>

\* The loop is exhausted: return rates
detunings_sweeping_return ==
    /\ pc_sweep = "clear"
    /\ sweep_i = Len(DETUNINGS)
    /\ pc_sweep' = "done"
    /\ UNCHANGED <<DETUNINGS, couplings, sweep_i, rates, runs>>
    /\ UNCHANGED <<catch_vars, pos_vars, cdf_vars, asm_vars, plot_vars>>

-----------------------------------------------------------------------------
(* Specifications: one per component, the other components idle *)

InitCatch == CatchInit /\ PosIdle /\ CdfIdle /\ AsmIdle /\ PlotIdle /\ SweepIdle
NextCatch == catching_rate
SpecCatch == InitCatch /\ [][NextCatch]_vars

InitPos == CatchIdle /\ PosInit /\ CdfIdle /\ AsmIdle /\ PlotIdle /\ SweepIdle
NextPos ==
    \/ sample_positions_enter
    \/ sample_positions_batch
    \/ sample_positions_return
SpecPos == InitPos /\ [][NextPos]_vars

\* The random source is fair: a round that stores a position is not avoided
\* forever.  This is WF_vars(AcceptingBatch) with its ENABLED written out as
\* CanStore (CanStoreIsEnabled below says the two agree).
FairDraws == []<>(~CanStore) \/ []<><<count' > count>>_vars

SpecPosFair ==
    /\ InitPos /\ [][NextPos]_vars
    /\ WF_vars(sample_positions_enter)
    /\ WF_vars(sample_positions_return)
    /\ FairDraws

CanStoreIsEnabled == CanStore <=> ENABLED <<AcceptingBatch>>_vars

InitCdf == CatchIdle /\ PosIdle /\ AsmIdle /\ CdfInit /\ PlotIdle /\ SweepIdle
NextCdf == build_cdf_axial \/ build_cdf_ortho \/ sample_velocities
SpecCdf == InitCdf /\ [][NextCdf]_vars

InitAsm == CatchIdle /\ PosIdle /\ CdfIdle /\ AsmInit /\ PlotIdle /\ SweepIdle
NextAsm == hstack
SpecAsm == InitAsm /\ [][NextAsm]_vars

InitPlot == CatchIdle /\ PosIdle /\ CdfIdle /\ AsmIdle /\ SweepIdle /\ PlotInit
NextPlot == run_plots_trajectory \/ run_plots_finish
SpecPlot == InitPlot /\ [][NextPlot]_vars

InitSweep == CatchIdle /\ PosIdle /\ CdfIdle /\ PlotIdle /\ AsmImported /\ SweepInit
NextSweep ==
    \/ clear_detunings
    \/ add_detunings
    \/ run_simu
    \/ detunings_sweeping_append
    \/ detunings_sweeping_return
SpecSweep == InitSweep /\ [][NextSweep]_vars

\* The same component with the lower speed bound allowed to be <= 0 as well
InitCdfAnyBound ==
    CatchIdle /\ PosIdle /\ AsmIdle /\ PlotIdle /\ SweepIdle
    /\ (CdfInit \/ CdfInitNonPositive)
SpecCdfAnyBound == InitCdfAnyBound /\ [][NextCdf]_vars

-----------------------------------------------------------------------------
(* Properties of catching_rate, stated on the trajectory itself *)

Atoms == 1..Len(traj)

FinalOutsideWindow(i) == traj[i][n_steps] > 50 \/ traj[i][n_steps] < -50

CrossedBeforeEnd(i) == \E t \in 1..(n_steps - 1) : traj[i][t] > 350

EverAbove(i, level) == \E t \in 1..n_steps : traj[i][t] > level

\* C1: after catching_rate, every atom carries exactly one of the labels
\* escaped, lost, trapped: the three sets are pairwise disjoint and cover
\* all atoms.
C1_Partition ==
    pc_catch = "done" =>
        /\ Len(escaped) = Len(traj) /\ Len(lost) = Len(traj) /\ Len(trapped) = Len(traj)
        /\ \A i \in Atoms :
              /\ escaped[i] \/ lost[i] \/ trapped[i]
              /\ ~(escaped[i] /\ lost[i])
              /\ ~(escaped[i] /\ trapped[i])
              /\ ~(lost[i] /\ trapped[i])

\* C1 witness: a classified array in which all three labels occur.
C1_Witness ==
    /\ pc_catch = "done"
    /\ \E i, j, k \in Atoms : escaped[i] /\ lost[j] /\ trapped[k]

\* C2: the returned rate is (number of trapped atoms) / (number of atoms), a
\* number in [0, 1], for every array, the empty one included.
C2_RateIsTrappedFraction ==
    pc_catch = "done" =>
        /\ ~IsNaN(rate)
        /\ rate[2] > 0
        /\ rate[1] * Len(traj) = rate[2] * Cardinality({i \in Atoms : trapped[i]})
        /\ 0 <= rate[1] /\ rate[1] <= rate[2]

\* C3: an atom is escaped exactly when its final z is outside [-0.05, 0.05]
\* or its z exceeded 0.35 at a timestep before the last one.
C3_EscapedIff ==
    pc_catch = "done" =>
        \A i \in Atoms : escaped[i] <=> (FinalOutsideWindow(i) \/ CrossedBeforeEnd(i))

\* C3 witness: an atom that crossed 0.35 and came back inside the trap
\* window is escaped, next to one rising from -0.15 to 0.40.
C3_Witness ==
    /\ pc_catch = "done"
    /\ \E i \in Atoms :
          /\ CrossedBeforeEnd(i) /\ ~FinalOutsideWindow(i) /\ escaped[i]
    /\ \E j \in Atoms : traj[j] = <<-150, 400>> /\ escaped[j]

\* C4: an atom is lost exactly when it is not escaped and its z exceeded
\* 0.01 at some timestep; an atom meeting the escaped and the lost criterion
\* is escaped and not lost.
C4_LostIff ==
    pc_catch = "done" =>
        \A i \in Atoms :
            /\ lost[i] <=> (/\ ~(FinalOutsideWindow(i) \/ EverAbove(i, 350))
                            /\ EverAbove(i, 10))
            /\ ((FinalOutsideWindow(i) \/ EverAbove(i, 350)) /\ EverAbove(i, 10))
                  => (escaped[i] /\ ~lost[i])

\* C4 witness: one lost atom, and one escaped atom that also went above 0.01.
C4_Witness ==
    /\ pc_catch = "done"
    /\ \E i, j \in Atoms :
          /\ lost[i] /\ ~FinalOutsideWindow(i)
          /\ escaped[j] /\ EverAbove(j, 10)

\* C5: an atom is trapped exactly when its final z is within [-0.05, 0.05],
\* its z never exceeded 0.35 and never exceeded 0.01.
C5_TrappedIff ==
    pc_catch = "done" =>
        \A i \in Atoms :
            trapped[i] <=> (/\ traj[i][n_steps] >= -50 /\ traj[i][n_steps] <= 50
                            /\ \A t \in 1..n_steps : traj[i][t] <= 350
                            /\ \A t \in 1..n_steps : traj[i][t] <= 10)

\* C5 witness: the atom oscillating within [-0.005, 0.005] and ending at
\* 0.002 is trapped.
C5_Witness ==
    /\ pc_catch = "done"
    /\ \E i \in Atoms : traj[i] = <<-5, 5, 2>> /\ trapped[i]

-----------------------------------------------------------------------------
(* Properties of sample_positions *)

\* C6: when sample_positions returns, count = N_ATOMS and the array has
\* N_ATOMS rows: never more, never fewer.
C6_ExactlyN ==
    pc_pos = "done" => (count = N_ATOMS /\ Len(positions) = N_ATOMS)

\* C6 witness: a return with every row filled although batches could
\* reject, and could accept more than was still needed.
C6_Witness ==
    /\ pc_pos = "done" /\ N_ATOMS >= 2 /\ count = N_ATOMS
    /\ Rejected # {} /\ Accepted # {}
    /\ \A i \in 1..N_ATOMS : positions[i][1] # 0

\* C7: every returned position lies inside the aperture of radius R = D/2:
\* x^2 + y^2 <= R^2.
C7_InsideAperture ==
    pc_pos = "done" =>
        \A i \in 1..Len(positions) :
            positions[i][1] * positions[i][1] + positions[i][2] * positions[i][2]
                <= R * R

\* C7 witness: a return of two different positions when the batches also
\* held candidates outside the aperture.
C7_Witness ==
    /\ pc_pos = "done" /\ N_ATOMS >= 2
    /\ Rejected # {}
    /\ positions[1] # positions[2] /\ positions[1][1] # 0

CanTerminate ==
    SIGMA_X > 0 /\ SIGMA_Y > 0 /\ R > 0 /\ Accepted # {}

\* C8: with SIGMA_X, SIGMA_Y > 0 and R > 0, so that a batch can accept a
\* candidate, and a fair random source, sample_positions eventually returns
\* with count = N_ATOMS.
C8_Terminates ==
    CanTerminate ~> (pc_pos = "done" /\ count = N_ATOMS)

\* C8 witness: a return for positive spreads and radius where every round
\* could also have rejected its whole batch.
C8_Witness ==
    /\ pc_pos = "done" /\ count = N_ATOMS /\ CanTerminate /\ Rejected # {}
    /\ N_ATOMS >= 2

Degenerate == R = 0 \/ SIGMA_X = 0 \/ SIGMA_Y = 0

\* C9: a degenerate configuration (R = 0, SIGMA_X = 0 or SIGMA_Y = 0) is
\* caught before the sampling loop: no round of the loop ever runs in it, and
\* sample_positions does not return normally.
C9_DegenerateRejected ==
    (Degenerate /\ N_ATOMS > 0) => (batch_size = 0 /\ pc_pos # "done")

-----------------------------------------------------------------------------
(* Properties of build_cdf_axial / build_cdf_ortho *)

\* C10: the returned table starts at 0, never decreases, and ends at
\* exactly 1, for every non-negative density on the grid.
C10_CdfTable ==
    pc_cdf = "done" =>
        /\ Len(cdf) = n_grid
        /\ cdf[1] = FromInt(0)
        /\ \A i \in 1..(n_grid - 1) : RLeq(cdf[i], cdf[i + 1])
        /\ cdf[n_grid] = FromInt(1)

\* The table is usable for inverse-transform sampling: one entry per grid
\* point, from 0 to 1 without a decrease (and so without a nan).
ValidTable ==
    /\ Len(cdf) = n_grid
    /\ cdf[1] = FromInt(0)
    /\ \A i \in 1..(n_grid - 1) : RLeq(cdf[i], cdf[i + 1])
    /\ cdf[n_grid] = FromInt(1)

\* C11: for a valid table and every draw in [0, 1), the speed obtained by
\* interpolating the table lies in [V_MIN, V_MAX].
C11_SampleInRange ==
    (pc_cdf = "sampled" /\ ValidTable) =>
        /\ RLeq(FromInt(V_MIN), v_sample)
        /\ RLeq(v_sample, FromInt(V_MAX))

\* C11 witness: a draw that fell between two table entries, so that the
\* speed was interpolated to a value strictly between two grid points.
C11_Witness ==
    /\ pc_cdf = "sampled" /\ ValidTable
    /\ \A i \in 1..n_grid : cdf[i] # u
    /\ RLt(FromInt(V_MIN), v_sample) /\ RLt(v_sample, FromInt(V_MAX))
    /\ v_sample[2] > 1

\* C12: a transverse lower bound V_MIN <= 0 is rejected with an error before
\* the table is built: the builder never returns, and no table exists.
C12_NonPositiveRejected ==
    (dist = "ortho" /\ V_MIN <= 0 /\ pc_cdf # "call") =>
        (pc_cdf = "error" /\ cdf = <<>>)

-----------------------------------------------------------------------------
(* Properties of the assembly of u0_diffraction *)

\* C13: the assembled array has as many rows as there are atoms, each of 6
\* components, and row i is position i followed by velocity i.
C13_RowsArePositionThenVelocity ==
    pc_asm = "done" =>
        /\ Len(u0_diffraction) = Len(r0_diffraction)
        /\ Len(u0_diffraction) = Len(v0_diffraction)
        /\ \A i \in 1..Len(u0_diffraction) :
              /\ Len(u0_diffraction[i]) = 6
              /\ SubSeq(u0_diffraction[i], 1, 3) = r0_diffraction[i]
              /\ SubSeq(u0_diffraction[i], 4, 6) = v0_diffraction[i]

\* C13 witness: an assembled array of two atoms with different positions
\* and different velocities.
C13_Witness ==
    /\ pc_asm = "done" /\ Len(u0_diffraction) = 2
    /\ r0_diffraction[1] # r0_diffraction[2]
    /\ v0_diffraction[1] # v0_diffraction[2]

\* C14: when the numbers of positions and of velocities differ, the
\* assembly ends in an error and no array, partial or not, is produced.
C14_MismatchAborts ==
    (Len(r0_diffraction) # Len(v0_diffraction) /\ pc_asm # "call") =>
        (pc_asm = "error" /\ u0_diffraction = <<>>)

\* C14 witness: the assembly has failed on two non-empty arrays of
\* different lengths, the position array being the shorter one.
C14_Witness ==
    /\ pc_asm = "error"
    /\ 0 < Len(r0_diffraction) /\ Len(r0_diffraction) < Len(v0_diffraction)

-----------------------------------------------------------------------------
(* Further properties of catching_rate *)

-----------------------------------------------------------------------------
(* Further properties of sample_positions *)

\* C16: every returned position lies on the source plane: its third
\* coordinate is 0.
C16_OnSourcePlane ==
    pc_pos = "done" => \A i \in 1..Len(positions) : positions[i][3] = 0

-----------------------------------------------------------------------------

\* C17: the cut index of an atom is the (0-based) index of the first
\* timestep with z > 0.35, i.e. the number of leading timesteps with
\* z <= 0.35, and the number of timesteps when z never exceeds 0.35.
C17_CutIndex ==
    pc_catch = "done" =>
        /\ Len(cut_indices) = Len(traj)
        /\ \A i \in Atoms :
              cut_indices[i] =
                  Cardinality({t \in 1..n_steps : \A s \in 1..t : traj[i][s] <= 350})

\* C17 witness: one atom that never exceeds 0.35 and has the number of
\* timesteps as cut index, next to one that first exceeds it after step 0.
C17_Witness ==
    /\ pc_catch = "done"
    /\ \E i, j \in Atoms :
          /\ ~EverAbove(i, 350) /\ cut_indices[i] = n_steps
          /\ EverAbove(j, 350) /\ cut_indices[j] > 0 /\ cut_indices[j] < n_steps

\* A round of the sampling loop: the only step from "loop" to "loop".
IsBatchStep == pc_pos = "loop" /\ pc_pos' = "loop" /\ count < N_ATOMS

\* C18 as stated: each round draws ceil(1.5 * remaining) + 10 candidates,
\* remaining being N_ATOMS - count at the start of the round.
C18_CeilBatch ==
    [][IsBatchStep =>
          LET remaining == N_ATOMS - count
              k         == batch_size' - 10
          IN  2 * k >= 3 * remaining /\ 2 * k < 3 * remaining + 2]_vars

\* C18 amended: each round draws floor(1.5 * remaining) + 10 candidates.
C18_FloorBatch ==
    [][IsBatchStep =>
          LET remaining == N_ATOMS - count
              k         == batch_size' - 10
          IN  2 * k <= 3 * remaining /\ 3 * remaining < 2 * k + 2]_vars

\* C18 witness: a round with one position remaining has drawn 11 candidates.
C18_Witness ==
    pc_pos = "loop" /\ n_to_sample = 1 /\ batch_size = 11 /\ N_ATOMS >= 2

-----------------------------------------------------------------------------

\* C19: before the final rescaling, consecutive table entries differ by the
\* trapezoid (pdf[i] + pdf[i+1]) / 2 * (v[i+1] - v[i]).
C19_TrapezoidIncrements ==
    (pc_cdf \in {"done", "sampled"} /\ V_MIN > 0) =>
        \A i \in 1..(n_grid - 1) :
            cdf_raw[i + 1] =
                RAdd(cdf_raw[i],
                     RMul(RDiv(RAdd(pdf[i], pdf[i + 1]), FromInt(2)),
                          FromInt(v[i + 1] - v[i])))

\* C20: catching_rate leaves the array it is given unchanged.
C20_InputUnchanged == [][traj' = traj]_vars

\* C20 witness: a call has returned on an array with an atom that never
\* exceeded 0.35, the case in which the fix-up assignment runs.
C20_Witness ==
    /\ pc_catch = "done" /\ calls = 1
    /\ \E i \in Atoms : ~EverAbove(i, 350)
    /\ \E j \in Atoms : EverAbove(j, 350)

-----------------------------------------------------------------------------

\* C21: in sample_positions, 0 <= count <= N_ATOMS and count never
\* decreases; a round of the loop changes only the rows from the old count up
\* to the new count, so rows stored earlier keep their values, and no round
\* changes the third coordinate of any row.
C21_LoopFrame ==
    [][/\ 0 <= count' /\ count' <= N_ATOMS /\ count <= count'
       /\ IsBatchStep =>
             /\ Len(positions') = Len(positions)
             /\ \A i \in 1..Len(positions) :
                   /\ (i <= count \/ i > count') => positions'[i] = positions[i]
                   /\ positions'[i][3] = positions[i][3]]_vars

\* C21 witness: two rounds have each stored one position, the second one
\* behind the first.
C21_Witness ==
    /\ N_ATOMS >= 2 /\ count = 2 /\ n_to_sample = 1
    /\ positions[1][1] # 0 /\ positions[2][1] # 0
    /\ positions[1] # positions[2]

-----------------------------------------------------------------------------

\* C22: the copy of catching_rate in zeeman_slower_diffraction_det.py gives
\* every atom of every array the labels the copy in atomic_flux_fraction.py
\* gave it, and returns the same rate.
C22_CopiesAgree ==
    pc_catch = "done" =>
        /\ escaped = DetEscaped(traj, n_steps)
        /\ lost = DetLost(traj, n_steps)
        /\ trapped = DetTrapped(traj, n_steps)
        /\ rate = DetRate(traj, n_steps)

\* C22 witness: both copies have labelled an array of one escaped, one lost
\* and one trapped atom, with rate 1/3.
C22_Witness ==
    /\ pc_catch = "done" /\ Len(traj) = 3
    /\ \E i, j, k \in Atoms :
          /\ escaped[i] /\ DetEscaped(traj, n_steps)[i]
          /\ lost[j] /\ DetLost(traj, n_steps)[j]
          /\ trapped[k] /\ DetTrapped(traj, n_steps)[k]
    /\ rate = <<1, 3>> /\ DetRate(traj, n_steps) = <<1, 3>>

\* The largest z of atom i over its history, stated on the trajectory
MaxZ(i) == CHOOSE m \in {traj[i][t] : t \in 1..n_steps} :
               \A t \in 1..n_steps : traj[i][t] <= m

\* C24: two atoms with the same final z and the same largest z carry the
\* same labels, whatever else their histories hold.
C24_FinalAndMaxDecide ==
    pc_catch = "done" =>
        \A i, j \in Atoms :
            (traj[i][n_steps] = traj[j][n_steps] /\ MaxZ(i) = MaxZ(j)) =>
                /\ escaped[i] = escaped[j]
                /\ lost[i] = lost[j]
                /\ trapped[i] = trapped[j]

\* C24 witness: two different histories with equal final and largest z, one
\* of them below -0.05 on the way, are both trapped.
C24_Witness ==
    /\ pc_catch = "done"
    /\ \E i, j \in Atoms :
          /\ traj[i] # traj[j]
          /\ traj[i][n_steps] = traj[j][n_steps] /\ MaxZ(i) = MaxZ(j)
          /\ \E t \in 1..n_steps : traj[i][t] < -50
          /\ MaxZ(i) <= 10 /\ trapped[i] /\ trapped[j]

-----------------------------------------------------------------------------
(* run_plots against catching_rate *)

NonDecreasing(z) == \A t \in 1..(Len(z) - 1) : z[t] <= z[t + 1]

\* C23: for every trajectory whose z never decreases, the colour run_plots
\* chose is the colour of the label catching_rate gives that trajectory.
C23_ColourIsLabel ==
    \A i \in 1..Len(colors) :
        NonDecreasing(z_trajs_npz[i]) =>
            LET T == Len(z_trajs_npz[i])
            IN  /\ (colors[i] = COLOR_ESCAPED) <=> Escaped(z_trajs_npz, T)[i]
                /\ (colors[i] = COLOR_LOSS) <=> Lost(z_trajs_npz, T)[i]
                /\ (colors[i] = COLOR_TRAP) <=> Trapped(z_trajs_npz, T)[i]

\* C23 witness: all trajectories are drawn; a rising one that ends exactly
\* at 0.35 is black, next to a rising one drawn as through-put.
C23_Witness ==
    /\ pc_plot = "done"
    /\ \E i, j \in 1..Len(colors) :
          /\ NonDecreasing(z_trajs_npz[i]) /\ Len(z_trajs_npz[i]) >= 2
          /\ z_trajs_npz[i][Len(z_trajs_npz[i])] = 350
          /\ colors[i] = COLOR_ESCAPED
          /\ NonDecreasing(z_trajs_npz[j]) /\ colors[j] = COLOR_LOSS

-----------------------------------------------------------------------------
(* Properties of detunings_sweeping *)

=============================================================================
